---- MODULE Spec2Model ----
(***************************************************************************)
(* Model of src-tauri/src/lib.rs of hito: the synchronized configuration   *)
(* store (app-config.json guarded by APP_DATA_MUTEX) and the query engine  *)
(* (sort_images).                                                          *)
(*                                                                         *)
(* Spec      : threads of the host calling the config store commands.      *)
(* QuerySpec : one call of sort_images on inputs drawn from bounded sets.  *)
(***************************************************************************)
EXTENDS Integers, Sequences, FiniteSets, TLC

\* ------------------------------------------------------------------ bounds
\* number of host threads, each making one call on the config store
NumThreads == 2

\* ------------------------------------------------------------ value shapes
\* Option<T>
None == [some |-> FALSE]
Some(v) == [some |-> TRUE, val |-> v]

\* Result<T, String>
Ok(v) == [ok |-> TRUE, val |-> v]
Err(e) == [ok |-> FALSE, err |-> e]

\* the value of Ok(())
Unit == [unit |-> TRUE]

\* ------------------------------------------------------------- config store
VARIABLES
  disk,      \* content of app-config.json
  lock,      \* holder of APP_DATA_MUTEX, NoThread when free
  pc,        \* position of each thread inside its call
  op,        \* the command each thread called, with its arguments
  cur,       \* current_data of update_app_data_sync
  upd,       \* result of update_fn(current_data)
  ret,       \* value the call returned
  before,    \* file content when the thread got the lock (history)
  after,     \* file content when the thread returned (history)
  seen,      \* what the thread's read of the file met (history)
  nwrites,   \* number of times the thread opened the file for writing (history)
  disk0      \* file content before any call (history)

\* ------------------------------------------------------------- query engine
VARIABLES
  images, sort_option, sort_direction, image_categories, filter_options,
  qpc,       \* "ready" before the call of sort_images, "returned" or "panicked" after
  result     \* the value sort_images returned

\* the sidecar files (.hito.json)
VARIABLES
  hito_files,  \* content of each sidecar file, by path
  hito_call,   \* the load_hito_config or save_hito_config call made last
  hito_pc,     \* "idle", "write_all" (inside fs::write), "returned"
  hito_ret,    \* the value the last call returned
  last_saved   \* by path: the arguments of the save that wrote the content, if one did

storeVars == <<disk, lock, pc, op, cur, upd, ret, before, after, seen, nwrites, disk0>>
queryVars == <<images, sort_option, sort_direction, image_categories, filter_options, qpc, result>>
\* the image files
VARIABLES
  files,       \* what each path of the file system holds
  files0,      \* what each path held when the command was called
  file_call,   \* the copy_image or move_image call
  fpc,         \* "ready" before the call, "returned" after
  fret         \* the value the call returned

hitoVars == <<hito_files, hito_call, hito_pc, hito_ret, last_saved>>
fileVars == <<files, files0, file_call, fpc, fret>>
vars == <<storeVars, queryVars, hitoVars, fileVars>>

Threads == 1..NumThreads
NoThread == 0

\* AppData::default(): empty categories, empty hotkeys, no path mapping
AppDataDefault == [categories |-> <<>>, hotkeys |-> <<>>, data_file_paths |-> None]

\* DataFileMap::new()
DataFileMapNew == [d \in {} |-> "f1"]

\* HashMap::insert(k, v)
insert(m, k, v) == [x \in (DOMAIN m) \cup {k} |-> IF x = k THEN v ELSE m[x]]

\* HashMap::get(k).cloned()
get(m, k) == IF k \in DOMAIN m THEN Some(m[k]) ELSE None

\* Option::get_or_insert_with(DataFileMap::new)
get_or_insert_with(o) == IF o.some THEN o.val ELSE DataFileMapNew

\* ---- file contents
\* no app-config.json in the app data directory
FileMissing == [kind |-> "missing"]
\* a file whose text is not the JSON of an AppData
FileMalformed == [kind |-> "malformed"]
\* a file opened by fs::write (truncated) whose text was not, or not all, written
FilePartial == [kind |-> "partial"]

\* serde_json::to_string_pretty(&AppData): None is written as null
to_string_pretty(d) ==
  [kind |-> "json",
   categories |-> d.categories,
   hotkeys |-> d.hotkeys,
   data_file_paths |-> IF d.data_file_paths.some
                          THEN [null |-> FALSE, object |-> d.data_file_paths.val]
                          ELSE [null |-> TRUE]]

\* a parser that falls back to the default document for text it cannot parse
from_str_or_default(content) ==
  IF content.kind = "json"
    THEN Ok([categories |-> content.categories,
             hotkeys |-> content.hotkeys,
             data_file_paths |-> IF content.data_file_paths.null
                                    THEN None
                                    ELSE Some(content.data_file_paths.object)])
    ELSE Ok([categories |-> <<>>, hotkeys |-> <<>>, data_file_paths |-> None])

\* serde_json::from_str::<AppData>(&content)
from_str(content) ==
  IF content.kind = "json"
    THEN Ok([categories |-> content.categories,
             hotkeys |-> content.hotkeys,
             data_file_paths |-> IF content.data_file_paths.null
                                    THEN None
                                    ELSE Some(content.data_file_paths.object)])
    ELSE Err("Failed to parse app data file")

\* app_data_path.exists()
exists(content) == content.kind # "missing"

\* ---- inputs of the calls
Directories == {"d1", "d2"}
\* the (directory, data_file_path) pairs given to save_data_file_path
SavedPaths == {[directory |-> "d1", data_file_path |-> "f1"],
               [directory |-> "d1", data_file_path |-> "f2"],
               [directory |-> "d2", data_file_path |-> "f2"]}
\* CategoryData and HotkeyData values, named by a number
SavedLists == {[categories |-> <<>>, hotkeys |-> <<>>],
               [categories |-> <<11, 12>>, hotkeys |-> <<21>>]}

InitialContents ==
  {FileMissing, FileMalformed,
   to_string_pretty([categories |-> <<10>>, hotkeys |-> <<20>>,
                     data_file_paths |-> Some(insert(DataFileMapNew, "d2", "f1"))])}

Ops ==
  {[name |-> "load_app_data"]}
  \cup {[name |-> "get_data_file_path", directory |-> d] : d \in Directories}
  \cup {[name |-> "save_app_data", categories |-> a.categories, hotkeys |-> a.hotkeys] :
           a \in SavedLists}
  \cup {[name |-> "save_data_file_path", directory |-> a.directory,
          data_file_path |-> a.data_file_path] : a \in SavedPaths}
  \cup {[name |-> "update_fail"]}

\* the call that appends a category: each thread has a category of its own, named
\* by the number of the thread
AppendOp(t) == [name |-> "update_append", category |-> t]

NoOp == [name |-> "none"]

Mutators == {"save_app_data", "save_data_file_path", "update_append", "update_fail"}
IsMutate(t) == op[t].name \in Mutators

\* ---- the closures passed to update_app_data_sync
\* a save_data_file_path that keeps the path a directory already has
save_data_file_path_fn_keep_first(app_data, directory, data_file_path) ==
  IF directory \in DOMAIN get_or_insert_with(app_data.data_file_paths)
    THEN Ok([app_data EXCEPT !.data_file_paths = Some(get_or_insert_with(app_data.data_file_paths))])
    ELSE Ok([app_data EXCEPT !.data_file_paths =
               Some(insert(get_or_insert_with(app_data.data_file_paths), directory,
                           data_file_path))])

\* save_data_file_path: insert into the mapping, creating it when absent
save_data_file_path_fn(app_data, directory, data_file_path) ==
  Ok([app_data EXCEPT !.data_file_paths =
        Some(insert(get_or_insert_with(app_data.data_file_paths), directory, data_file_path))])

\* a save_app_data that writes a fresh document holding only what it was given
save_app_data_fn_overwrite(app_data, categories, hotkeys) ==
  Ok([categories |-> categories, hotkeys |-> hotkeys, data_file_paths |-> None])

\* a save_app_data that adds what it was given to what is stored
save_app_data_fn_merge(app_data, categories, hotkeys) ==
  Ok([app_data EXCEPT !.categories = @ \o categories, !.hotkeys = @ \o hotkeys])

\* save_app_data: replace categories and hotkeys, keep data_file_paths
save_app_data_fn(app_data, categories, hotkeys) ==
  Ok([app_data EXCEPT !.categories = categories, !.hotkeys = hotkeys])

\* a caller's closure that appends one category to the loaded document
append_fn(app_data, category) ==
  Ok([app_data EXCEPT !.categories = Append(@, category)])

\* a caller's closure that returns an error
fail_fn(app_data) == Err("update_fn failed")

update_fn(o, app_data) ==
  CASE o.name = "save_data_file_path" ->
         save_data_file_path_fn(app_data, o.directory, o.data_file_path)
    [] o.name = "save_app_data" -> save_app_data_fn(app_data, o.categories, o.hotkeys)
    [] o.name = "update_append" -> append_fn(app_data, o.category)
    [] o.name = "update_fail" -> fail_fn(app_data)

\* ---- the mutex
\* a lock whose guard is dropped at once (let _ = mutex.lock()): it waits, but holds nothing
mutex_lock_unheld(t) == lock = NoThread /\ lock' = lock

\* mutex.lock(): blocks while another thread holds the guard
mutex_lock(t) == lock = NoThread /\ lock' = t

\* a guard that is never dropped (mem::forget)
drop_guard_forgotten(t) == lock' = lock

\* drop(_guard) when the function returns
drop_guard(t) == lock' = IF lock = t THEN NoThread ELSE lock

\* the function returns r; newdisk is the file content it leaves
Return(t, r, newdisk) ==
  /\ ret' = [ret EXCEPT ![t] = r]
  /\ pc' = [pc EXCEPT ![t] = "returned"]
  /\ after' = [after EXCEPT ![t] = newdisk]
  /\ disk' = newdisk
  /\ drop_guard(t)

\* the thread's view of the file when it reads it, which is right after it got the
\* lock: order counts the reads so far
Observe(t) ==
  seen' = [seen EXCEPT ![t] =
             [content |-> disk,
              order |-> Cardinality({w \in Threads : seen[w] # None}) + 1,
              midwrite |-> \E w \in Threads : pc[w] = "write_all",
              overlap |-> \E w \in Threads \ {t} :
                             IsMutate(w) /\ pc[w] \notin {"idle", "returned"}]]

\* ---- entry of a command: get_app_data_path, then get_app_data_mutex
CallOneOf(t, ops) ==
  /\ pc[t] = "idle"
  /\ \E o \in ops : op' = [op EXCEPT ![t] = o]
  /\ \/ /\ pc' = [pc EXCEPT ![t] = "lock"]
        /\ UNCHANGED <<ret, after>>
     \/ \* app_data_dir() or create_dir_all failed
        /\ pc' = [pc EXCEPT ![t] = "returned"]
        /\ ret' = [ret EXCEPT ![t] = Err("Failed to get app data directory")]
        /\ after' = [after EXCEPT ![t] = disk]
  /\ UNCHANGED <<disk, lock, cur, upd, before, seen, nwrites, disk0, queryVars, hitoVars, fileVars>>

\* the host calls any of the commands
Call(t) == CallOneOf(t, Ops \cup {AppendOp(t)})

\* the part of every lock step that is not the mutex itself
Locked(t) ==
  /\ pc[t] = "lock"
  /\ pc' = [pc EXCEPT ![t] = "read"]
  /\ before' = [before EXCEPT ![t] = disk]
  /\ UNCHANGED <<disk, op, cur, upd, ret, after, seen, nwrites, disk0, queryVars, hitoVars, fileVars>>

\* an update_app_data_sync that takes no lock
update_app_data_sync_lock_absent(t) == IsMutate(t) /\ lock' = lock /\ Locked(t)

\* update_app_data_sync: let _guard = mutex.lock()
update_app_data_sync_lock(t) == IsMutate(t) /\ mutex_lock(t) /\ Locked(t)

\* a load_app_data that takes no lock
load_app_data_lock_absent(t) == op[t].name = "load_app_data" /\ lock' = lock /\ Locked(t)

\* load_app_data: let _guard = mutex.lock()
load_app_data_lock(t) == op[t].name = "load_app_data" /\ mutex_lock(t) /\ Locked(t)

\* get_data_file_path: let _guard = mutex.lock()
get_data_file_path_lock(t) == op[t].name = "get_data_file_path" /\ mutex_lock(t) /\ Locked(t)

\* update_app_data_sync: read current app data, or default if the file doesn't exist
update_app_data_sync_read(t) ==
  /\ pc[t] = "read"
  /\ IsMutate(t)
  /\ Observe(t)
  /\ IF ~exists(disk)
       THEN /\ cur' = [cur EXCEPT ![t] = AppDataDefault]
            /\ pc' = [pc EXCEPT ![t] = "update"]
            /\ UNCHANGED <<disk, lock, ret, after>>
       ELSE \/ \* fs::read_to_string failed
               /\ Return(t, Err("Failed to read app data file"), disk)
               /\ UNCHANGED cur
            \/ /\ from_str(disk).ok
               /\ cur' = [cur EXCEPT ![t] = from_str(disk).val]
               /\ pc' = [pc EXCEPT ![t] = "update"]
               /\ UNCHANGED <<disk, lock, ret, after>>
            \/ /\ ~from_str(disk).ok
               /\ Return(t, from_str(disk), disk)
               /\ UNCHANGED cur
  /\ UNCHANGED <<op, upd, before, nwrites, disk0, queryVars, hitoVars, fileVars>>

\* an update_app_data_sync that opens the file for writing before it calls update_fn
update_app_data_sync_apply_created(t) ==
  /\ pc[t] = "update"
  /\ upd' = [upd EXCEPT ![t] = update_fn(op[t], cur[t])]
  /\ nwrites' = [nwrites EXCEPT ![t] = @ + 1]
  /\ IF update_fn(op[t], cur[t]).ok
       THEN /\ pc' = [pc EXCEPT ![t] = "write_all"]
            /\ disk' = FilePartial
            /\ UNCHANGED <<lock, ret, after>>
       ELSE Return(t, update_fn(op[t], cur[t]), FilePartial)
  /\ UNCHANGED <<op, cur, before, seen, disk0, queryVars, hitoVars, fileVars>>

\* update_app_data_sync: let updated_data = update_fn(current_data)?
update_app_data_sync_apply(t) ==
  /\ pc[t] = "update"
  /\ upd' = [upd EXCEPT ![t] = update_fn(op[t], cur[t])]
  /\ IF update_fn(op[t], cur[t]).ok
       THEN /\ pc' = [pc EXCEPT ![t] = "write_create"]
            /\ UNCHANGED <<disk, lock, ret, after>>
       ELSE Return(t, update_fn(op[t], cur[t]), disk)
  /\ UNCHANGED <<op, cur, before, seen, nwrites, disk0, queryVars, hitoVars, fileVars>>

\* fs::write, first half: File::create opens the file and truncates it
update_app_data_sync_write_create(t) ==
  /\ pc[t] = "write_create"
  /\ \/ /\ disk' = FilePartial
        /\ pc' = [pc EXCEPT ![t] = "write_all"]
        /\ nwrites' = [nwrites EXCEPT ![t] = @ + 1]
        /\ UNCHANGED <<lock, ret, after>>
     \/ \* the file could not be opened
        /\ Return(t, Err("Failed to write app data file"), disk)
        /\ UNCHANGED nwrites
  /\ UNCHANGED <<op, cur, upd, before, seen, disk0, queryVars, hitoVars, fileVars>>

\* fs::write, second half: write_all of the serialized document
update_app_data_sync_write_all(t) ==
  /\ pc[t] = "write_all"
  /\ \/ Return(t, Ok(Unit), to_string_pretty(upd[t].val))
     \/ \* the write failed after the file was truncated
        Return(t, Err("Failed to write app data file"), FilePartial)
  /\ UNCHANGED <<op, cur, upd, before, seen, nwrites, disk0, queryVars, hitoVars, fileVars>>

\* a load_app_data that writes the default document when it finds no file
load_app_data_creating(t) ==
  /\ pc[t] = "read"
  /\ op[t].name = "load_app_data"
  /\ Observe(t)
  /\ IF ~exists(disk)
       THEN Return(t, Ok(AppDataDefault), to_string_pretty(AppDataDefault))
       ELSE \/ Return(t, Err("Failed to read app data file"), disk)
            \/ Return(t, from_str(disk), disk)
  /\ UNCHANGED <<op, cur, upd, before, nwrites, disk0, queryVars, hitoVars, fileVars>>

\* load_app_data after the lock
load_app_data(t) ==
  /\ pc[t] = "read"
  /\ op[t].name = "load_app_data"
  /\ Observe(t)
  /\ IF ~exists(disk)
       THEN Return(t, Ok(AppDataDefault), disk)
       ELSE \/ Return(t, Err("Failed to read app data file"), disk)
            \/ Return(t, from_str(disk), disk)
  /\ UNCHANGED <<op, cur, upd, before, nwrites, disk0, queryVars, hitoVars, fileVars>>

\* the value get_data_file_path returns for a parsed document
lookup(data, directory) ==
  IF data.data_file_paths.some THEN get(data.data_file_paths.val, directory) ELSE None

\* get_data_file_path after the lock
get_data_file_path(t) ==
  /\ pc[t] = "read"
  /\ op[t].name = "get_data_file_path"
  /\ Observe(t)
  /\ IF ~exists(disk)
       THEN Return(t, Ok(None), disk)
       ELSE \/ Return(t, Err("Failed to read app data file"), disk)
            \/ /\ from_str(disk).ok
               /\ Return(t, Ok(lookup(from_str(disk).val, op[t].directory)), disk)
            \/ /\ ~from_str(disk).ok
               /\ Return(t, from_str(disk), disk)
  /\ UNCHANGED <<op, cur, upd, before, nwrites, disk0, queryVars, hitoVars, fileVars>>

QueryIdle ==
  /\ images = <<>>
  /\ sort_option = ""
  /\ sort_direction = ""
  /\ image_categories = <<>>
  /\ filter_options = None
  /\ qpc = "idle"
  /\ result = None

\* no sidecar call is made
HitoIdle ==
  /\ hito_files = <<>>
  /\ hito_call = NoOp
  /\ hito_pc = "idle"
  /\ hito_ret = None
  /\ last_saved = <<>>

\* no image file command is called
FilesIdle ==
  /\ files = <<>>
  /\ files0 = <<>>
  /\ file_call = NoOp
  /\ fpc = "idle"
  /\ fret = None

StoreInit ==
  /\ disk \in InitialContents
  /\ disk0 = disk
  /\ lock = NoThread
  /\ pc = [t \in Threads |-> "idle"]
  /\ op = [t \in Threads |-> NoOp]
  /\ cur = [t \in Threads |-> AppDataDefault]
  /\ upd = [t \in Threads |-> None]
  /\ ret = [t \in Threads |-> None]
  /\ before = [t \in Threads |-> None]
  /\ after = [t \in Threads |-> None]
  /\ seen = [t \in Threads |-> None]
  /\ nwrites = [t \in Threads |-> 0]

Init == StoreInit /\ QueryIdle /\ HitoIdle /\ FilesIdle

Next ==
  \/ \E t \in Threads : Call(t)
  \/ \E t \in Threads : update_app_data_sync_lock(t)
  \/ \E t \in Threads : load_app_data_lock(t)
  \/ \E t \in Threads : get_data_file_path_lock(t)
  \/ \E t \in Threads : update_app_data_sync_read(t)
  \/ \E t \in Threads : update_app_data_sync_apply(t)
  \/ \E t \in Threads : update_app_data_sync_write_create(t)
  \/ \E t \in Threads : update_app_data_sync_write_all(t)
  \/ \E t \in Threads : load_app_data(t)
  \/ \E t \in Threads : get_data_file_path(t)

Spec == Init /\ [][Next]_vars

\* a step of thread t inside its call
Proceed(t) ==
  \/ update_app_data_sync_lock(t)
  \/ load_app_data_lock(t)
  \/ get_data_file_path_lock(t)
  \/ update_app_data_sync_read(t)
  \/ update_app_data_sync_apply(t)
  \/ update_app_data_sync_write_create(t)
  \/ update_app_data_sync_write_all(t)
  \/ load_app_data(t)
  \/ get_data_file_path(t)

\* one call of each of the four config store commands
StoreCommands ==
  {[name |-> "load_app_data"],
   [name |-> "get_data_file_path", directory |-> "d1"],
   [name |-> "save_app_data", categories |-> <<11, 12>>, hotkeys |-> <<21>>],
   [name |-> "save_data_file_path", directory |-> "d1", data_file_path |-> "f1"]}

\* the host calls one of the four config store commands
CallStoreCommand(t) == CallOneOf(t, StoreCommands)

FairNext ==
  \/ \E t \in Threads : CallStoreCommand(t)
  \/ \E t \in Threads : Proceed(t)

\* The scheduler runs every thread that can take a step; a thread blocked in
\* Mutex::lock can take its step when the guard is dropped. Whether a command is
\* called at all is up to the host.
FairSpec == Init /\ [][FairNext]_vars /\ \A t \in Threads : WF_vars(Proceed(t))

\* ================================================================ query engine
\* A String is a sequence of byte values (47 is '/', 65..90 are 'A'..'Z', 97..122
\* are 'a'..'z'); the paths drawn below are file paths of the form /dir/name.

\* Ordering
Less == "Less"
Equal == "Equal"
Greater == "Greater"

\* Ord::cmp on integers (u64, i64)
cmp(a, b) == IF a < b THEN Less ELSE IF a > b THEN Greater ELSE Equal

RECURSIVE cmp_str(_, _)
\* Ord::cmp on String: lexicographic on the bytes
cmp_str(a, b) ==
  IF a = <<>> THEN (IF b = <<>> THEN Equal ELSE Less)
  ELSE IF b = <<>> THEN Greater
  ELSE IF Head(a) # Head(b) THEN cmp(Head(a), Head(b))
  ELSE cmp_str(Tail(a), Tail(b))

\* Ordering::reverse
reverse(o) == IF o = Less THEN Greater ELSE IF o = Greater THEN Less ELSE o

\* str::to_lowercase on ASCII text
to_lowercase(str) == [i \in DOMAIN str |-> IF str[i] \in 65..90 THEN str[i] + 32 ELSE str[i]]

\* Path::new(path).file_name(): the text after the last '/'
file_name(path) ==
  LET slashes == {i \in DOMAIN path : path[i] = 47}
      from == IF slashes = {} THEN 1
              ELSE 1 + CHOOSE i \in slashes : \A j \in slashes : j <= i
  IN SubSeq(path, from, Len(path))

\* str::starts_with, str::ends_with, str::contains
starts_with(str, pat) == Len(pat) <= Len(str) /\ SubSeq(str, 1, Len(pat)) = pat
ends_with(str, pat) ==
  Len(pat) <= Len(str) /\ SubSeq(str, Len(str) - Len(pat) + 1, Len(str)) = pat
contains(str, pat) ==
  \E i \in 1..(Len(str) - Len(pat) + 1) : SubSeq(str, i, i + Len(pat) - 1) = pat

\* Option::unwrap_or
unwrap_or(o, default) == IF o.some THEN o.val ELSE default

\* An ISO 8601 text is either no RFC 3339 date-time ([rfc3339 |-> FALSE]) or names
\* an instant: sec whole seconds since the Unix epoch and millis thousandths after.
\* chrono::DateTime::parse_from_rfc3339(text).ok()
parse_from_rfc3339(text) ==
  IF text.rfc3339 THEN Some([sec |-> text.sec, millis |-> text.millis]) ELSE None

\* DateTime::timestamp(): the whole seconds since the epoch, the fraction dropped
timestamp(dt) == dt.sec

\* a.created_at.as_ref().and_then(|d| parse_from_rfc3339(d).ok()).map(|dt| dt.timestamp())
created_timestamp(img) ==
  IF img.created_at.some /\ parse_from_rfc3339(img.created_at.val).some
    THEN Some(timestamp(parse_from_rfc3339(img.created_at.val).val))
    ELSE None

RECURSIVE collect(_)
\* image_categories.into_iter().collect::<HashMap>(): a later pair replaces an earlier one
collect(pairs) ==
  IF pairs = <<>> THEN [p \in {} |-> <<>>]
  ELSE LET pair == pairs[Len(pairs)]
       IN insert(collect(SubSeq(pairs, 1, Len(pairs) - 1)), pair[1], pair[2])

\* the timestamps of the assignments that parse: filter_map(parse().ok().map(timestamp))
parsed_timestamps(assignments) ==
  {timestamp(parse_from_rfc3339(assignments[i].assigned_at).val) :
     i \in {j \in DOMAIN assignments : parse_from_rfc3339(assignments[j].assigned_at).some}}

\* Iterator::max
max(set) == IF set = {} THEN None ELSE Some(CHOOSE x \in set : \A y \in set : y <= x)

\* a key that takes the timestamp of the last assignment of the list
get_latest_assignment_last_in_list(category_map, path) ==
  IF path \in DOMAIN category_map /\ category_map[path] # <<>>
    THEN LET last == category_map[path][Len(category_map[path])].assigned_at
         IN IF parse_from_rfc3339(last).some THEN timestamp(parse_from_rfc3339(last).val) ELSE 0
    ELSE 0

\* get_latest_assignment: uncategorized images get 0
get_latest_assignment(category_map, path) ==
  IF path \in DOMAIN category_map /\ category_map[path] # <<>>
    THEN unwrap_or(max(parsed_timestamps(category_map[path])), 0)
    ELSE 0

\* ---- the comparators given to sort_by
\* if is_descending { ordering.reverse() } else { ordering }
directed(ordering, is_descending) == IF is_descending THEN reverse(ordering) ELSE ordering

\* a name comparator that compares the whole paths
compare_name_whole_path(a, b, is_descending) ==
  directed(cmp_str(to_lowercase(a.path), to_lowercase(b.path)), is_descending)

compare_name(a, b, is_descending) ==
  directed(cmp_str(to_lowercase(file_name(a.path)), to_lowercase(file_name(b.path))),
           is_descending)

\* a size comparator that forgets the direction
compare_size_undirected(a, b, is_descending) == cmp(unwrap_or(a.size, 0), unwrap_or(b.size, 0))

compare_size(a, b, is_descending) ==
  directed(cmp(unwrap_or(a.size, 0), unwrap_or(b.size, 0)), is_descending)

\* sort by date, with None values last
compare_date_created(a, b, is_descending) ==
  LET date_a == created_timestamp(a)
      date_b == created_timestamp(b)
      ordering == IF date_a.some /\ date_b.some THEN cmp(date_a.val, date_b.val)
                  ELSE IF date_a.some THEN Less
                  ELSE IF date_b.some THEN Greater
                  ELSE Equal
  IN directed(ordering, is_descending)

compare_last_categorized(a, b, is_descending, category_map) ==
  directed(cmp(get_latest_assignment(category_map, a.path),
               get_latest_assignment(category_map, b.path)), is_descending)

\* the closure sort_by gets for a recognized sort_option
compare(a, b, option, is_descending, category_map) ==
  CASE option = "name" -> compare_name(a, b, is_descending)
    [] option = "size" -> compare_size(a, b, is_descending)
    [] option = "dateCreated" -> compare_date_created(a, b, is_descending)
    [] option = "lastCategorized" ->
         compare_last_categorized(a, b, is_descending, category_map)

RECURSIVE insert_tail_before_equal(_, _, _, _, _)
\* an insertion that puts x before the elements that compare Equal to it
insert_tail_before_equal(v, x, option, is_descending, category_map) ==
  IF v = <<>> THEN <<x>>
  ELSE IF compare(v[Len(v)], x, option, is_descending, category_map) # Less
    THEN Append(insert_tail_before_equal(SubSeq(v, 1, Len(v) - 1), x, option, is_descending,
                                         category_map),
                v[Len(v)])
    ELSE Append(v, x)

RECURSIVE insert_tail(_, _, _, _, _)
\* slice::sort_by is a stable sort; insert_tail puts x into the sorted v behind every
\* element that is not Greater than it
insert_tail(v, x, option, is_descending, category_map) ==
  IF v = <<>> THEN <<x>>
  ELSE IF compare(v[Len(v)], x, option, is_descending, category_map) = Greater
    THEN Append(insert_tail(SubSeq(v, 1, Len(v) - 1), x, option, is_descending, category_map),
                v[Len(v)])
    ELSE Append(v, x)

RECURSIVE sort_by_dedup(_, _, _, _)
\* a sort that keeps one of the elements that compare Equal
sort_by_dedup(v, option, is_descending, category_map) ==
  IF v = <<>> THEN <<>>
  ELSE LET sorted == sort_by_dedup(SubSeq(v, 1, Len(v) - 1), option, is_descending,
                                   category_map)
       IN IF \E i \in DOMAIN sorted :
               compare(sorted[i], v[Len(v)], option, is_descending, category_map) = Equal
            THEN sorted
            ELSE insert_tail(sorted, v[Len(v)], option, is_descending, category_map)

RECURSIVE sort_by(_, _, _, _)
sort_by(v, option, is_descending, category_map) ==
  IF v = <<>> THEN <<>>
  ELSE insert_tail(sort_by(SubSeq(v, 1, Len(v) - 1), option, is_descending, category_map),
                   v[Len(v)], option, is_descending, category_map)

\* ---- the filter clauses
\* a category filter that takes any assignment for the one asked for
category_keeps_any_assignment(img, category_id, category_map) ==
  IF category_id = "uncategorized"
    THEN (img.path \in DOMAIN category_map => category_map[img.path] = <<>>)
    ELSE img.path \in DOMAIN category_map /\ category_map[img.path] # <<>>

\* category filter: "uncategorized" keeps images with no assignment
category_keeps(img, category_id, category_map) ==
  IF category_id = "uncategorized"
    THEN (img.path \in DOMAIN category_map => category_map[img.path] = <<>>)
    ELSE /\ img.path \in DOMAIN category_map
         /\ \E i \in DOMAIN category_map[img.path] :
              category_map[img.path][i].category_id = category_id

\* a name filter that matches the whole path, directories included
name_keeps_whole_path(img, pattern, operator) ==
  LET name == to_lowercase(img.path)
  IN CASE operator = "startsWith" -> starts_with(name, pattern)
       [] operator = "endsWith" -> ends_with(name, pattern)
       [] operator = "exact" -> name = pattern
       [] OTHER -> contains(name, pattern)

\* name filter on the lower-cased file name; "contains" is the default operator
name_keeps(img, pattern, operator) ==
  LET name == to_lowercase(file_name(img.path))
  IN CASE operator = "startsWith" -> starts_with(name, pattern)
       [] operator = "endsWith" -> ends_with(name, pattern)
       [] operator = "exact" -> name = pattern
       [] OTHER -> contains(name, pattern)

\* ---- u64 arithmetic on the size thresholds
\* A number is three limbs, hi * 2^44 + mid * 2^22 + lo with mid < 2^22 and
\* lo < 2^22; it is a u64 when hi < 2^20.
Number(hi, mid, lo) == [hi |-> hi, mid |-> mid, lo |-> lo]

\* img.size as a u64; the file sizes drawn are below 2^22
u64_from(n) == Number(0, 0, n)

\* Ord::cmp on u64
cmp_u64(x, y) ==
  IF x.hi # y.hi THEN cmp(x.hi, y.hi)
  ELSE IF x.mid # y.mid THEN cmp(x.mid, y.mid)
  ELSE cmp(x.lo, y.lo)

\* whether size_value_kb * 1024 exceeds u64::MAX
mul_overflows(size_value_kb) == size_value_kb.hi >= 2^10

\* size_value_kb * 1024 without overflow checks: the product modulo 2^64
size_value_bytes(size_value_kb) ==
  Number((size_value_kb.hi % 2^10) * 2^10 + (size_value_kb.mid \div 2^12),
         (size_value_kb.mid % 2^12) * 2^10 + (size_value_kb.lo \div 2^12),
         (size_value_kb.lo % 2^12) * 2^10)

\* A threshold text is empty, not a decimal numeral, or the numeral of a number.
EmptyText == [empty |-> TRUE, digits |-> FALSE]
NotANumber == [empty |-> FALSE, digits |-> FALSE]
Digits(number) == [empty |-> FALSE, digits |-> TRUE, value |-> number]

\* str::parse::<u64>(): a numeral above u64::MAX is an error too
parse_u64(text) ==
  IF text.digits /\ text.value.hi < 2^20 THEN Ok(text.value) ELSE Err("invalid digit")

\* if let Some(s) = &text { if !s.is_empty() { if let Ok(kb) = s.parse::<u64>() {..} } }
threshold_given(text) == text.some /\ ~text.val.empty /\ parse_u64(text.val).ok

\* size filter with a parsed first threshold; "largerThan" is the default operator
size_keeps(img, operator, bytes, size_value2) ==
  LET img_size == u64_from(unwrap_or(img.size, 0))
  IN CASE operator = "lessThan" -> cmp_u64(img_size, bytes) = Less
       [] operator = "between" ->
            IF threshold_given(size_value2)
              THEN LET size_value2_bytes == size_value_bytes(parse_u64(size_value2.val).val)
                       min_size == IF cmp_u64(bytes, size_value2_bytes) = Greater
                                     THEN size_value2_bytes ELSE bytes
                       max_size == IF cmp_u64(bytes, size_value2_bytes) = Less
                                     THEN size_value2_bytes ELSE bytes
                   IN /\ cmp_u64(img_size, min_size) # Less
                      /\ cmp_u64(img_size, max_size) # Greater
              ELSE TRUE
       [] OTHER -> cmp_u64(img_size, bytes) = Greater

\* the retain pass of the category clause
category_clause(img, filters, category_map) ==
  (filters.category_id.some /\ filters.category_id.val # "")
    => category_keeps(img, filters.category_id.val, category_map)

\* the retain pass of the name clause
name_clause(img, filters) ==
  (filters.name_pattern.some /\ filters.name_pattern.val # <<>>)
    => name_keeps(img, to_lowercase(filters.name_pattern.val),
                  unwrap_or(filters.name_operator, "contains"))

\* a size clause that passes every record of unknown size
size_clause_known_sizes(img, filters) ==
  (threshold_given(filters.size_value) /\ img.size.some)
    => size_keeps(img, unwrap_or(filters.size_operator, "largerThan"),
                  size_value_bytes(parse_u64(filters.size_value.val).val),
                  filters.size_value2)

\* the retain pass of the size clause
size_clause(img, filters) ==
  threshold_given(filters.size_value)
    => size_keeps(img, unwrap_or(filters.size_operator, "largerThan"),
                  size_value_bytes(parse_u64(filters.size_value.val).val),
                  filters.size_value2)

\* a filter that stops after the first clause that is given
filter_images_first_clause(imgs, category_map, filter) ==
  IF ~filter.some THEN imgs
  ELSE LET KeepCategory(img) == category_clause(img, filter.val, category_map)
           KeepName(img) == name_clause(img, filter.val)
           KeepSize(img) == size_clause(img, filter.val)
       IN IF filter.val.category_id.some /\ filter.val.category_id.val # ""
            THEN SelectSeq(imgs, KeepCategory)
          ELSE IF filter.val.name_pattern.some /\ filter.val.name_pattern.val # <<>>
            THEN SelectSeq(imgs, KeepName)
          ELSE SelectSeq(imgs, KeepSize)

\* if let Some(filters) = filter_options { ... }: the three retain passes in turn
filter_images(imgs, category_map, filter) ==
  IF ~filter.some THEN imgs
  ELSE LET KeepCategory(img) == category_clause(img, filter.val, category_map)
           KeepName(img) == name_clause(img, filter.val)
           KeepSize(img) == size_clause(img, filter.val)
       IN SelectSeq(SelectSeq(SelectSeq(imgs, KeepCategory), KeepName), KeepSize)

\* whether one of the two multiplications by 1024 of the size clause overflows
multiplication_overflows(filter) ==
  /\ filter.some
  /\ threshold_given(filter.val.size_value)
  /\ \/ mul_overflows(parse_u64(filter.val.size_value.val).val)
     \/ /\ unwrap_or(filter.val.size_operator, "largerThan") = "between"
        /\ threshold_given(filter.val.size_value2)
        /\ mul_overflows(parse_u64(filter.val.size_value2.val).val)

\* a sort_images that sorts by name when it does not know the option
sort_images_name_by_default(imgs, option, direction, categories, filter) ==
  LET category_map == collect(categories)
      filtered_images == filter_images(imgs, category_map, filter)
      is_descending == direction = "descending"
  IN IF option \in {"name", "size", "dateCreated", "lastCategorized"}
       THEN Ok(sort_by(filtered_images, option, is_descending, category_map))
       ELSE Ok(sort_by(filtered_images, "name", is_descending, category_map))

\* sort_images: filter first, then sort by the option; an unknown option sorts nothing
sort_images(imgs, option, direction, categories, filter) ==
  LET category_map == collect(categories)
      filtered_images == filter_images(imgs, category_map, filter)
      is_descending == direction = "descending"
  IN IF option \in {"name", "size", "dateCreated", "lastCategorized"}
       THEN Ok(sort_by(filtered_images, option, is_descending, category_map))
       ELSE Ok(filtered_images)

\* ---- inputs of the call
\* the most images in one call
MaxImages == 3

\* /a/B, /b/a, /a/b, /b/A: names that differ only in case, directories that order
\* the other way round
PathPool == <<(<<47, 97, 47, 66>>), (<<47, 98, 47, 97>>), (<<47, 97, 47, 98>>), (<<47, 98, 47, 65>>)>>

\* /ab/Ba, /ba/aB, /b/a, /a/bab: names that have a pattern as prefix, suffix, inner
\* part or whole, in directories that have it too
NamePool ==
  <<(<<47, 97, 98, 47, 66, 97>>), (<<47, 98, 97, 47, 97, 66>>), (<<47, 98, 47, 97>>),
    (<<47, 97, 47, 98, 97, 98>>)>>

SizePool == {None, Some(0), Some(1), Some(2)}

\* sizes around the thresholds of 1 KiB and 2 KiB
FilterSizePool == {None, Some(1024), Some(1500), Some(2048)}

Instant(sec, millis) == [rfc3339 |-> TRUE, sec |-> sec, millis |-> millis]
NotADate == [rfc3339 |-> FALSE]

\* no timestamp, one that does not parse, and instants in the same and in another second
CreatedPool == {None, Some(NotADate), Some(Instant(1, 0)), Some(Instant(1, 500)),
                Some(Instant(2, 0))}

Assigned(id, at) == [category_id |-> id, assigned_at |-> at]

\* the assignment lists of one image; NoEntry is an image without a pair in image_categories
NoEntry == [entry |-> FALSE]
Entry(list) == [entry |-> TRUE, list |-> list]
AssignmentPool ==
  {NoEntry, Entry(<<>>),
   Entry(<<Assigned("c1", NotADate)>>),
   Entry(<<Assigned("c1", Instant(0 - 1, 0))>>),
   Entry(<<Assigned("c1", Instant(1, 0))>>),
   Entry(<<Assigned("c1", NotADate), Assigned("c2", Instant(2, 0))>>),
   Entry(<<Assigned("c2", Instant(2, 0)), Assigned("c1", Instant(1, 0))>>)}

Image(path, size, created_at) == [path |-> path, size |-> size, created_at |-> created_at]

\* sequences of up to MaxImages images with pairwise different paths
DistinctPathSeqs ==
  UNION {{s \in [1..n -> 1..Len(PathPool)] : \A i, j \in 1..n : i # j => s[i] # s[j]} :
           n \in 0..MaxImages}
Lengths == {n \in 0..MaxImages : n <= Len(PathPool)}

SortOptions == {"name", "size", "dateCreated", "lastCategorized", "unsorted"}
SortDirections == {"ascending", "descending", "sideways"}

RECURSIVE PairsOf(_, _)
\* the pairs of image_categories for the images 1..n with the chosen entries
PairsOf(n, entries) ==
  IF n = 0 THEN <<>>
  ELSE IF entries[n].entry
    THEN Append(PairsOf(n - 1, entries), <<PathPool[n], entries[n].list>>)
    ELSE PairsOf(n - 1, entries)

\* the inputs drawn for each sort option vary what that option reads
QueryInputs ==
  \/ /\ sort_option \in {"name", "unsorted"}
     /\ \E s \in DistinctPathSeqs : images = [i \in DOMAIN s |-> Image(PathPool[s[i]], None, None)]
     /\ image_categories = <<>>
  \/ /\ sort_option = "size"
     /\ \E n \in Lengths : \E sz \in [1..n -> SizePool] :
          images = [i \in 1..n |-> Image(PathPool[i], sz[i], None)]
     /\ image_categories = <<>>
  \/ /\ sort_option = "dateCreated"
     /\ \E n \in Lengths : \E cr \in [1..n -> CreatedPool] :
          images = [i \in 1..n |-> Image(PathPool[i], None, cr[i])]
     /\ image_categories = <<>>
  \/ /\ sort_option = "lastCategorized"
     /\ \E n \in Lengths : \E en \in [1..n -> AssignmentPool] :
          /\ images = [i \in 1..n |-> Image(PathPool[i], None, None)]
          /\ image_categories = PairsOf(n, en)

\* ---- the filters of the call
FilterOptions(category_id, name_pattern, name_operator, size_operator, size_value, size_value2) ==
  [category_id |-> category_id, name_pattern |-> name_pattern,
   name_operator |-> name_operator, size_operator |-> size_operator,
   size_value |-> size_value, size_value2 |-> size_value2]

\* no filter, a filter without clauses, a filter whose clauses are all empty texts
NoFilterPool ==
  {None,
   Some(FilterOptions(None, None, None, None, None, None)),
   Some(FilterOptions(Some(""), Some(<<>>), Some("exact"), Some("lessThan"),
                      Some(EmptyText), Some(EmptyText)))}

\* "C1" differs from the assigned "c1" in case only; "c3" is assigned nowhere
CategoryIdPool == {Some(""), Some("uncategorized"), Some("c1"), Some("C1"), Some("c2"), Some("c3")}

\* "", "a", "B", "AB", "Ba", "/"
PatternPool == {Some(<<>>), Some(<<97>>), Some(<<66>>), Some(<<65, 66>>), Some(<<66, 97>>),
                Some(<<47>>)}
NameOperatorPool == {None, Some("contains"), Some("startsWith"), Some("endsWith"),
                     Some("exact"), Some("matches")}

\* 2^54 KiB is 2^64 bytes and 2^54 + 1 KiB is 2^64 + 1024 bytes; 2^64 is no u64
Huge == Number(2^10, 0, 0)
HugePlus == Number(2^10, 0, 1)
TooLarge == Number(2^20, 0, 0)
ThresholdPool == {None, Some(EmptyText), Some(NotANumber), Some(Digits(u64_from(1))),
                  Some(Digits(u64_from(2))), Some(Digits(Huge)), Some(Digits(TooLarge))}
Threshold2Pool == {None, Some(EmptyText), Some(NotANumber), Some(Digits(u64_from(1))),
                   Some(Digits(u64_from(2))), Some(Digits(HugePlus))}
SizeOperatorPool == {None, Some("largerThan"), Some("lessThan"), Some("between"),
                     Some("atLeast")}

\* the inputs drawn for each filter clause vary what that clause reads
FilterInputs ==
  \/ /\ sort_option \in {"unsorted", "lastCategorized"}
     /\ \E n \in Lengths : \E en \in [1..n -> AssignmentPool] :
          /\ images = [i \in 1..n |-> Image(PathPool[i], None, None)]
          /\ image_categories = PairsOf(n, en)
     /\ \E id \in CategoryIdPool :
          filter_options = Some(FilterOptions(id, None, None, None, None, None))
  \/ /\ sort_option \in {"unsorted", "name"}
     /\ \E s \in DistinctPathSeqs : images = [i \in DOMAIN s |-> Image(NamePool[s[i]], None, None)]
     /\ image_categories = <<>>
     /\ \E pattern \in PatternPool, operator \in NameOperatorPool :
          filter_options = Some(FilterOptions(None, pattern, operator, None, None, None))
  \/ /\ sort_option \in {"unsorted", "size"}
     /\ \E n \in Lengths : \E sz \in [1..n -> FilterSizePool] :
          images = [i \in 1..n |-> Image(PathPool[i], sz[i], None)]
     /\ image_categories = <<>>
     /\ \E operator \in SizeOperatorPool, v \in ThresholdPool, v2 \in Threshold2Pool :
          filter_options = Some(FilterOptions(None, None, None, operator, v, v2))
  \/ /\ sort_option \in {"unsorted", "name"}
     /\ \E n \in Lengths : \E sz \in [1..n -> {Some(0), Some(2048)}] :
        \E en \in [1..n -> {NoEntry, Entry(<<Assigned("c1", Instant(1, 0))>>)}] :
          /\ images = [i \in 1..n |-> Image(NamePool[i], sz[i], None)]
          /\ image_categories =
               [i \in DOMAIN PairsOf(n, en) |->
                  <<NamePool[CHOOSE k \in 1..n : PathPool[k] = PairsOf(n, en)[i][1]],
                    PairsOf(n, en)[i][2]>>]
     /\ \E id \in {None, Some("uncategorized"), Some("c1")},
           pattern \in {None, Some(<<97>>)},
           operator \in {None, Some("startsWith")},
           size_operator \in {None, Some("lessThan")},
           v \in {None, Some(Digits(u64_from(1)))} :
          filter_options = Some(FilterOptions(id, pattern, operator, size_operator, v, None))

StoreIdle ==
  /\ disk = FileMissing
  /\ disk0 = disk
  /\ lock = NoThread
  /\ pc = [t \in Threads |-> "idle"]
  /\ op = [t \in Threads |-> NoOp]
  /\ cur = [t \in Threads |-> AppDataDefault]
  /\ upd = [t \in Threads |-> None]
  /\ ret = [t \in Threads |-> None]
  /\ before = [t \in Threads |-> None]
  /\ after = [t \in Threads |-> None]
  /\ seen = [t \in Threads |-> None]
  /\ nwrites = [t \in Threads |-> 0]

QueryInit ==
  /\ StoreIdle
  /\ HitoIdle
  /\ FilesIdle
  /\ \/ /\ sort_option \in SortOptions
        /\ sort_direction \in SortDirections
        /\ QueryInputs
        /\ filter_options \in NoFilterPool
     \/ /\ sort_direction \in {"ascending", "descending"}
        /\ FilterInputs
  /\ qpc = "ready"
  /\ result = None

\* The host calls the command sort_images. A build with overflow checks (the
\* default of the dev profile) panics at a multiplication that overflows; a build
\* without them (the default of the release profile) goes on with the wrapped product.
SortImagesCall ==
  /\ qpc = "ready"
  /\ \/ /\ result' = sort_images(images, sort_option, sort_direction, image_categories,
                                 filter_options)
        /\ qpc' = "returned"
     \/ /\ multiplication_overflows(filter_options)
        /\ result' = None
        /\ qpc' = "panicked"
  /\ UNCHANGED <<images, sort_option, sort_direction, image_categories, filter_options, storeVars,
               hitoVars, fileVars>>

QueryNext == SortImagesCall

QuerySpec == QueryInit /\ [][QueryNext]_vars

\* ================================================================ sidecar files
\* A file name is relative or absolute; a path is a directory and a name in it.
RelativeName(text) == [absolute |-> FALSE, text |-> text]
AbsoluteName(text) == [absolute |-> TRUE, text |-> text]

\* Path::join: an absolute name replaces the directory
join(directory, name) ==
  IF name.absolute THEN [dir |-> "/", name |-> name.text]
  ELSE [dir |-> directory, name |-> name.text]

\* a get_hito_file_path that knows the default name only
get_hito_file_path_default_only(directory, filename) ==
  join(directory, RelativeName(".hito.json"))

\* get_hito_file_path: the given file name, ".hito.json" when none is given
get_hito_file_path(directory, filename) ==
  join(directory, unwrap_or(filename, RelativeName(".hito.json")))

\* HitoFile { image_categories }
HitoFile(assignments) == [image_categories |-> assignments]

\* serde_json::to_string_pretty(&HitoFile)
to_string_pretty_hito(data) == [kind |-> "hito_json", image_categories |-> data.image_categories]

\* serde_json::from_str::<HitoFile>(&content)
from_str_hito(content) ==
  IF content.kind = "hito_json" THEN Ok(HitoFile(content.image_categories))
  ELSE Err("Failed to parse .hito.json file")

\* ---- inputs of the calls
HitoNames == {RelativeName(".hito.json"), RelativeName("other.json"),
              AbsoluteName("tmp/abs.json")}
HitoFilenames == {None} \cup {Some(n) : n \in HitoNames}
\* the files the calls can name
HitoPaths == {join(d, n) : d \in Directories, n \in HitoNames}
HitoLists ==
  {<<(<<PathPool[1], <<Assigned("c1", Instant(1, 0))>>>>)>>,
   <<(<<PathPool[1], <<>>>>), (<<PathPool[2], <<Assigned("c2", NotADate)>>>>)>>}

HitoInit ==
  /\ StoreIdle
  /\ QueryIdle
  /\ FilesIdle
  /\ \E c \in {FileMissing, FileMalformed} :
       hito_files = [p \in HitoPaths |->
                       IF p = join("d1", RelativeName(".hito.json")) THEN c ELSE FileMissing]
  /\ hito_call = NoOp
  /\ hito_pc = "idle"
  /\ hito_ret = None
  /\ last_saved = [p \in HitoPaths |-> None]

\* load_hito_config
LoadHitoConfig(directory, filename) ==
  LET hito_path == get_hito_file_path(directory, filename)
  IN /\ hito_pc \in {"idle", "returned"}
     /\ hito_call' = [name |-> "load_hito_config", directory |-> directory,
                      filename |-> filename]
     /\ hito_pc' = "returned"
     /\ IF ~exists(hito_files[hito_path])
          THEN hito_ret' = Ok(HitoFile(<<>>))
          ELSE \/ hito_ret' = from_str_hito(hito_files[hito_path])
               \/ hito_ret' = Err("Failed to read .hito.json file")
     /\ UNCHANGED <<hito_files, last_saved, storeVars, queryVars, fileVars>>

\* save_hito_config up to the first half of fs::write: File::create opens the file
\* and truncates it
SaveHitoConfigCreate(directory, assignments, filename) ==
  LET hito_path == get_hito_file_path(directory, filename)
  IN /\ hito_pc \in {"idle", "returned"}
     /\ hito_call' = [name |-> "save_hito_config", directory |-> directory,
                      image_categories |-> assignments, filename |-> filename]
     /\ \/ /\ hito_files' = [hito_files EXCEPT ![hito_path] = FilePartial]
           /\ last_saved' = [last_saved EXCEPT ![hito_path] = None]
           /\ hito_pc' = "write_all"
           /\ UNCHANGED hito_ret
        \/ \* the file could not be opened
           /\ hito_ret' = Err("Failed to write .hito.json file")
           /\ hito_pc' = "returned"
           /\ UNCHANGED <<hito_files, last_saved>>
     /\ UNCHANGED <<storeVars, queryVars, fileVars>>

\* save_hito_config, second half of fs::write: write_all of the serialized HitoFile
SaveHitoConfigWriteAll ==
  LET hito_path == get_hito_file_path(hito_call.directory, hito_call.filename)
  IN /\ hito_pc = "write_all"
     /\ hito_pc' = "returned"
     /\ \/ /\ hito_files' = [hito_files EXCEPT ![hito_path] =
                                to_string_pretty_hito(HitoFile(hito_call.image_categories))]
           /\ last_saved' = [last_saved EXCEPT ![hito_path] =
                                Some([image_categories |-> hito_call.image_categories,
                                      filename |-> hito_call.filename])]
           /\ hito_ret' = Ok(Unit)
        \/ \* the write failed after the file was truncated
           /\ hito_ret' = Err("Failed to write .hito.json file")
           /\ UNCHANGED <<hito_files, last_saved>>
     /\ UNCHANGED <<hito_call, storeVars, queryVars, fileVars>>

HitoNext ==
  \/ \E d \in Directories, f \in HitoFilenames : LoadHitoConfig(d, f)
  \/ \E d \in Directories, l \in HitoLists, f \in HitoFilenames : SaveHitoConfigCreate(d, l, f)
  \/ SaveHitoConfigWriteAll

HitoSpec == HitoInit /\ [][HitoNext]_vars

\* ================================================================== image files
\* A path holds nothing, a file with a content, or a directory.
FileOf(content) == [kind |-> "file", content |-> content]
\* a file opened for writing and truncated, of which nothing or a part was written
Truncated == FileOf("")
IsDirectory == [kind |-> "dir"]

\* Path::is_file, Path::is_dir
is_file(entry) == entry.kind = "file"
is_dir(entry) == entry.kind = "dir"

\* the directories "A" and "B" are on one filesystem, "C" is on another
Filesystem(directory) == IF directory = "C" THEN "other" ELSE "root"
ImageDirs == {"A", "B", "C"}
ImageNames == {"m.png", "n.png"}
ImagePaths == {join(d, RelativeName(n)) : d \in ImageDirs, n \in ImageNames}

\* what the path destination_dir holds: "gone" is no path, "file" is a file
DestinationDirs == ImageDirs \cup {"gone", "file"}
dest_dir_entry(destination_dir) ==
  IF destination_dir \in ImageDirs THEN IsDirectory
  ELSE IF destination_dir = "gone" THEN FileMissing
  ELSE FileOf("c1")

\* fs::copy(from, to): opens to for writing, which truncates it, and copies the
\* bytes; when from and to are the same file that file is truncated and the copy
\* of nothing succeeds, unless the platform refuses to copy a file onto itself
fs_copy(fs, from, to) ==
  IF to = from
    THEN {[files |-> [fs EXCEPT ![from] = Truncated], ok |-> TRUE],
          [files |-> fs, ok |-> FALSE]}
  ELSE IF is_dir(fs[to])
    THEN {[files |-> fs, ok |-> FALSE]}
  ELSE {[files |-> [fs EXCEPT ![to] = fs[from]], ok |-> TRUE],
        [files |-> fs, ok |-> FALSE],
        [files |-> [fs EXCEPT ![to] = Truncated], ok |-> FALSE]}

\* fs::remove_file(path)
fs_remove_file(fs, path) ==
  {[files |-> [fs EXCEPT ![path] = FileMissing], ok |-> TRUE],
   [files |-> fs, ok |-> FALSE]}

\* fs::rename(from, to): atomic; replaces a file at to; between filesystems it
\* fails with EXDEV; renaming a file to itself succeeds and changes nothing
fs_rename(fs, from, to) ==
  {[files |-> fs, error |-> "other"]}
  \cup (IF is_dir(fs[to]) THEN {}
        ELSE IF Filesystem(from.dir) # Filesystem(to.dir)
          THEN {[files |-> fs, error |-> "cross_device"]}
        ELSE IF to = from THEN {[files |-> fs, error |-> "none"]}
        ELSE {[files |-> [fs EXCEPT ![to] = fs[from], ![from] = FileMissing],
               error |-> "none"]})

\* the checks copy_image and move_image make before they touch a file
precondition(fs, image_path, destination_dir) ==
  IF ~exists(fs[image_path]) THEN Err("Image does not exist")
  ELSE IF ~is_file(fs[image_path]) THEN Err("Path is not a file")
  ELSE IF ~exists(dest_dir_entry(destination_dir))
    THEN Err("Destination directory does not exist")
  ELSE IF ~is_dir(dest_dir_entry(destination_dir)) THEN Err("Destination is not a directory")
  ELSE Ok(Unit)

\* dest_dir.join(source_path.file_name())
dest_path(image_path, destination_dir) == join(destination_dir, RelativeName(image_path.name))

\* copy_image: the outcomes as [files, ret]
copy_image(fs, image_path, destination_dir) ==
  IF ~precondition(fs, image_path, destination_dir).ok
    THEN {[files |-> fs, ret |-> precondition(fs, image_path, destination_dir)]}
    ELSE {[files |-> c.files,
           ret |-> IF c.ok THEN Ok(Unit) ELSE Err("Failed to copy image")] :
            c \in fs_copy(fs, image_path, dest_path(image_path, destination_dir))}

\* a fallback that removes the source whether or not the copy succeeded
copy_then_delete_always(fs, from, to) ==
  UNION {{[files |-> r.files,
           ret |-> IF ~c.ok THEN Err("Failed to move image across filesystems")
                   ELSE IF r.ok THEN Ok(Unit)
                   ELSE Err("Copied file but failed to remove source")] :
            r \in fs_remove_file(c.files, from)} : c \in fs_copy(fs, from, to)}

\* move_image after a cross-device error: copy, then delete the source
copy_then_delete(fs, from, to) ==
  UNION {IF c.ok
           THEN {[files |-> r.files,
                  ret |-> IF r.ok THEN Ok(Unit)
                          ELSE Err("Copied file but failed to remove source")] :
                   r \in fs_remove_file(c.files, from)}
           ELSE {[files |-> c.files, ret |-> Err("Failed to move image across filesystems")]} :
         c \in fs_copy(fs, from, to)}

\* move_image: the outcomes as [files, ret]
move_image(fs, image_path, destination_dir) ==
  IF ~precondition(fs, image_path, destination_dir).ok
    THEN {[files |-> fs, ret |-> precondition(fs, image_path, destination_dir)]}
    ELSE UNION {IF r.error = "none" THEN {[files |-> r.files, ret |-> Ok(Unit)]}
                ELSE IF r.error = "cross_device"
                  THEN copy_then_delete(r.files, image_path,
                                        dest_path(image_path, destination_dir))
                ELSE {[files |-> r.files, ret |-> Err("Failed to move image")]} :
                r \in fs_rename(fs, image_path, dest_path(image_path, destination_dir))}

\* ---- inputs of the call
\* every path holds nothing or a file with one of two contents; B/m.png may be a
\* directory
FileSystems ==
  {fs \in [ImagePaths -> {FileMissing, FileOf("c1"), FileOf("c2"), IsDirectory}] :
     \A q \in ImagePaths : is_dir(fs[q]) => q = join("B", RelativeName("m.png"))}

FilesInit ==
  /\ StoreIdle
  /\ QueryIdle
  /\ HitoIdle
  /\ files \in FileSystems
  /\ files0 = files
  /\ \E name \in {"copy_image", "move_image"}, image_path \in ImagePaths,
        destination_dir \in DestinationDirs :
       file_call = [name |-> name, image_path |-> image_path,
                    destination_dir |-> destination_dir]
  /\ fpc = "ready"
  /\ fret = None

\* the host calls the command copy_image
CopyImageCall ==
  /\ fpc = "ready"
  /\ file_call.name = "copy_image"
  /\ \E out \in copy_image(files, file_call.image_path, file_call.destination_dir) :
       files' = out.files /\ fret' = out.ret
  /\ fpc' = "returned"
  /\ UNCHANGED <<files0, file_call, storeVars, queryVars, hitoVars>>

\* the host calls the command move_image
MoveImageCall ==
  /\ fpc = "ready"
  /\ file_call.name = "move_image"
  /\ \E out \in move_image(files, file_call.image_path, file_call.destination_dir) :
       files' = out.files /\ fret' = out.ret
  /\ fpc' = "returned"
  /\ UNCHANGED <<files0, file_call, storeVars, queryVars, hitoVars>>

FilesNext == CopyImageCall \/ MoveImageCall

FilesSpec == FilesInit /\ [][FilesNext]_vars

\* ===================================================================== claims
Readers == {"load_app_data", "get_data_file_path"}
Savers == {"save_app_data", "save_data_file_path"}
Returned(t) == pc[t] = "returned"
AllReturned == \A t \in Threads : Returned(t)

\* the document a file content stands for: a missing file is the default document
DocOf(content) == IF exists(content) THEN from_str(content).val ELSE AppDataDefault
\* the directory-to-path mapping of a document, empty when it was never populated
MapOf(doc) == get_or_insert_with(doc.data_file_paths)
Contains(seq, x) == \E i \in DOMAIN seq : seq[i] = x

\* ---- C1
AllAppendedOk ==
  /\ \A t \in Threads : Returned(t) /\ op[t].name = "update_append" /\ ret[t] = Ok(Unit)
  /\ \A s, t \in Threads : s # t => op[s].category # op[t].category

\* C1: no lost update. When every thread has called update_app_data_sync with a
\* transform appending a category of its own and all the calls have returned Ok,
\* the stored document contains the category of every thread.
NoLostUpdate ==
  AllAppendedOk =>
    /\ from_str(disk).ok
    /\ \A t \in Threads : Contains(from_str(disk).val.categories, op[t].category)

\* every thread appended its own category, and the calls overlapped: one of them
\* waited for the lock while another call held it
NoLostUpdateWitness ==
  /\ AllAppendedOk
  /\ \E t \in Threads : seen[t].overlap

\* ---- C2
RECURSIVE ApplyInOrder(_, _)
\* the transforms of the calls of the threads in order, applied one after the other
ApplyInOrder(order, doc) ==
  IF order = <<>> THEN doc
  ELSE ApplyInOrder(Tail(order), update_fn(op[Head(order)], doc).val)

Orders(S) ==
  {o \in [1..Cardinality(S) -> S] : \A i, j \in 1..Cardinality(S) : i # j => o[i] # o[j]}

SaveThreads == {t \in Threads : op[t].name \in Savers}

OnlySavesAllOk ==
  /\ AllReturned
  /\ \A t \in Threads : IsMutate(t) => (op[t].name \in Savers /\ ret[t] = Ok(Unit))

\* C2: mutations are serialized. When all calls have returned and the mutate calls
\* among them were save_app_data and save_data_file_path calls that returned Ok, the
\* stored document is the initial document with their transforms applied one after
\* the other in some order.
MutationsSerialized ==
  OnlySavesAllOk =>
    IF SaveThreads = {} THEN disk = disk0
    ELSE \E o \in Orders(SaveThreads) :
           disk = to_string_pretty(ApplyInOrder(o, DocOf(disk0)))

\* two save calls that overlapped and touched different fields both returned Ok
MutationsSerializedWitness ==
  /\ OnlySavesAllOk
  /\ \E s, t \in SaveThreads :
       /\ op[s].name = "save_app_data"
       /\ op[t].name = "save_data_file_path"
       /\ seen[t].overlap

\* ---- C3
HasRead(t) == op[t].name \in Readers /\ seen[t] # None

\* C3: a read never meets the file between the truncation and the end of a write of
\* a mutate, and the document it returns is the one the file held at that moment.
ReadNeverMidWrite ==
  \A t \in Threads :
    HasRead(t) =>
      /\ ~seen[t].midwrite
      /\ (Returned(t) /\ ret[t].ok) =>
            /\ seen[t].content.kind \in {"missing", "json"}
            /\ op[t].name = "load_app_data" => ret[t].val = DocOf(seen[t].content)
            /\ op[t].name = "get_data_file_path" =>
                 ret[t].val = lookup(DocOf(seen[t].content), op[t].directory)

\* a read returned a document while a mutate call of another thread was in progress
ReadNeverMidWriteWitness ==
  \E t \in Threads : HasRead(t) /\ seen[t].overlap /\ Returned(t) /\ ret[t].ok

\* ---- C4
SavedOk(t, name) == Returned(t) /\ op[t].name = name /\ ret[t] = Ok(Unit)

\* C4: field isolation. A save_data_file_path that returned Ok left categories and
\* hotkeys as they were when it took the lock and changed the mapping only at its
\* directory; a save_app_data that returned Ok left the mapping as it was.
FieldIsolation ==
  \A t \in Threads :
    /\ SavedOk(t, "save_data_file_path") =>
         LET b == DocOf(before[t])
             a == DocOf(after[t])
         IN /\ a.categories = b.categories
            /\ a.hotkeys = b.hotkeys
            /\ a.data_file_paths.some
            /\ DOMAIN MapOf(a) = DOMAIN MapOf(b) \cup {op[t].directory}
            /\ MapOf(a)[op[t].directory] = op[t].data_file_path
            /\ \A d \in DOMAIN MapOf(b) \ {op[t].directory} : MapOf(a)[d] = MapOf(b)[d]
    /\ SavedOk(t, "save_app_data") =>
         DocOf(after[t]).data_file_paths = DocOf(before[t]).data_file_paths

\* a save_data_file_path met stored categories and another directory's entry, and a
\* save_app_data met a stored mapping
FieldIsolationWitness ==
  \E s, t \in Threads :
    /\ SavedOk(t, "save_data_file_path")
    /\ DocOf(before[t]).categories # <<>>
    /\ DOMAIN MapOf(DocOf(before[t])) \ {op[t].directory} # {}
    /\ SavedOk(s, "save_app_data")
    /\ DocOf(before[s]).data_file_paths.some

\* ---- C5
\* C5: after a mutate whose write step failed, the file still holds the document it
\* held before the call; no truncated or partly written text is left
FailedWriteKeepsPrior ==
  \A t \in Threads :
    (Returned(t) /\ ret[t] = Err("Failed to write app data file")) =>
      /\ after[t] = before[t]
      /\ after[t].kind # "partial"

\* ---- C6
TransformFailed(t) == Returned(t) /\ upd[t] # None /\ ~upd[t].ok

\* C6: when update_fn returned an error, update_app_data_sync returned that error,
\* opened the file for no write, left the file content as it was, and gave up the lock.
FailedTransformNoWrite ==
  \A t \in Threads :
    TransformFailed(t) =>
      /\ ret[t] = upd[t]
      /\ nwrites[t] = 0
      /\ after[t] = before[t]
      /\ lock # t

\* a transform failed on a stored document, and a later call of another thread got
\* the lock and returned
FailedTransformNoWriteWitness ==
  \E s, t \in Threads :
    /\ TransformFailed(t)
    /\ before[t].kind = "json"
    /\ s # t /\ Returned(s) /\ before[s] # None /\ seen[s] # None /\ ~seen[s].overlap

\* ---- C7
Unparsable == {"malformed", "partial"}
GotLock(t) == Returned(t) /\ before[t] # None

\* C7: with no config file, load_app_data returns the default document and
\* get_data_file_path returns None; with a file that does not parse, load_app_data,
\* get_data_file_path and every mutate return an error and leave the content as it is.
MissingIsDefaultMalformedIsError ==
  \A t \in Threads :
    GotLock(t) =>
      /\ (before[t].kind = "missing" /\ op[t].name = "load_app_data") =>
            ret[t] = Ok(AppDataDefault) /\ after[t] = before[t]
      /\ (before[t].kind = "missing" /\ op[t].name = "get_data_file_path") =>
            ret[t] = Ok(None) /\ after[t] = before[t]
      /\ before[t].kind \in Unparsable =>
            ~ret[t].ok /\ after[t] = before[t]

\* a mutate and a load both met a malformed file
MissingIsDefaultMalformedIsErrorWitness ==
  \E s, t \in Threads :
    /\ GotLock(s) /\ before[s] = FileMalformed /\ op[s].name = "save_app_data"
    /\ GotLock(t) /\ before[t] = FileMalformed /\ op[t].name = "load_app_data"

\* ---- C8
QueryReturned == qpc = "returned"
RecognizedKey == sort_option \in {"name", "size", "dateCreated", "lastCategorized"}
\* what sort_images returns for the inputs of the call in the given direction
Sorted(direction) ==
  sort_images(images, sort_option, direction, image_categories, filter_options).val
Reverse(s) == [i \in 1..Len(s) |-> s[Len(s) + 1 - i]]
\* two records have equal sort keys under the sort option of the call
KeyEqual(a, b) == compare(a, b, sort_option, FALSE, collect(image_categories)) = Equal
KeyLess(a, b) == compare(a, b, sort_option, FALSE, collect(image_categories)) = Less
\* the position of a record in the input (paths are unique within a call)
InputIndex(img) == CHOOSE i \in DOMAIN images : images[i].path = img.path
NoEqualKeys == \A i, j \in DOMAIN images : i # j => ~KeyEqual(images[i], images[j])
DescendingCall == QueryReturned /\ RecognizedKey /\ sort_direction = "descending"

\* C8 as stated: for every sort key and every input, equal sort keys included, the
\* descending output is exactly the reverse of the ascending output.
DescendingIsReverse == DescendingCall => result.val = Reverse(Sorted("ascending"))

\* C8 amended: the descending output is the reverse of the ascending output when no
\* two records have equal sort keys; in general it is ordered by non-increasing key,
\* and records with equal keys keep their input order in both directions.
DescendingIsReverseUpToTies ==
  DescendingCall =>
    LET asc == Sorted("ascending")
        r == result.val
    IN /\ NoEqualKeys => r = Reverse(asc)
       /\ Len(r) = Len(asc)
       /\ \A i, j \in DOMAIN r :
            i < j => /\ ~KeyLess(r[i], r[j])
                     /\ KeyEqual(r[i], r[j]) => InputIndex(r[i]) < InputIndex(r[j])
       /\ \A i, j \in DOMAIN asc :
            i < j => /\ ~KeyLess(asc[j], asc[i])
                     /\ KeyEqual(asc[i], asc[j]) => InputIndex(asc[i]) < InputIndex(asc[j])

\* a descending call on three records, two with equal keys and one with another key
DescendingIsReverseUpToTiesWitness ==
  /\ DescendingCall
  /\ Len(images) = 3
  /\ \E i, j \in DOMAIN images : i # j /\ KeyEqual(images[i], images[j])
  /\ \E i, j \in DOMAIN images : KeyLess(images[i], images[j])
  /\ result.val # Sorted("ascending")

\* ---- C9
\* the record has at least one assignment whose timestamp parses
HasParseable(img) ==
  /\ img.path \in DOMAIN collect(image_categories)
  /\ parsed_timestamps(collect(image_categories)[img.path]) # {}

\* C9: sorting by lastCategorized ascending puts every record without a parseable
\* assignment timestamp before every record with one, whatever the timestamp is;
\* descending puts them after.
UncategorizedFirst ==
  (QueryReturned /\ sort_option = "lastCategorized") =>
    \A i, j \in DOMAIN result.val :
      (~HasParseable(result.val[i]) /\ HasParseable(result.val[j])) =>
        IF sort_direction = "descending" THEN j < i ELSE i < j

\* ---- C10
ValidCreated(img) == created_timestamp(img).some
\* the instant a valid creation timestamp names, in thousandths of a second
CreatedInstant(img) ==
  parse_from_rfc3339(img.created_at.val).val.sec * 1000
    + parse_from_rfc3339(img.created_at.val).val.millis

\* C10: sorting by dateCreated ascending puts the records without a valid creation
\* timestamp after those with one, orders the valid ones by increasing time and
\* keeps the others in input order; descending puts the records without one first.
DateCreatedOrder ==
  (QueryReturned /\ sort_option = "dateCreated") =>
    LET r == result.val
    IN \A i, j \in DOMAIN r :
         IF sort_direction = "descending"
           THEN (~ValidCreated(r[i]) /\ ValidCreated(r[j])) => i < j
           ELSE /\ (ValidCreated(r[i]) /\ ~ValidCreated(r[j])) => i < j
                /\ (ValidCreated(r[i]) /\ ValidCreated(r[j])
                      /\ CreatedInstant(r[i]) < CreatedInstant(r[j])) => i < j
                /\ (~ValidCreated(r[i]) /\ ~ValidCreated(r[j])
                      /\ InputIndex(r[i]) < InputIndex(r[j])) => i < j

\* ---- C11
Range(s) == {s[i] : i \in DOMAIN s}
CategoryId == IF filter_options.some THEN filter_options.val.category_id ELSE None
NameClauseIdle ==
  filter_options.some => filter_options.val.name_pattern \in {None, Some(<<>>)}
SizeClauseIdle == filter_options.some => ~threshold_given(filter_options.val.size_value)
\* the assignment lists by path, as the map of the call holds them
CategoryMap == collect(image_categories)
Uncategorized == {img \in Range(images) :
                    img.path \notin DOMAIN CategoryMap \/ CategoryMap[img.path] = <<>>}
AssignedTo(id) == {img \in Range(images) :
                     /\ img.path \in DOMAIN CategoryMap
                     /\ \E a \in Range(CategoryMap[img.path]) : a.category_id = id}

\* C11: with no other clause, the category filter "uncategorized" returns exactly
\* the input records whose path is absent from the map or mapped to an empty list;
\* any other non-empty id returns exactly the records with at least one assignment
\* of that very id; an empty or absent id removes no record.
CategoryFilterExact ==
  (QueryReturned /\ NameClauseIdle /\ SizeClauseIdle) =>
    /\ Len(result.val) = Cardinality(Range(result.val))
    /\ Range(result.val) =
         IF CategoryId \in {None, Some("")} THEN Range(images)
         ELSE IF CategoryId = Some("uncategorized") THEN Uncategorized
         ELSE AssignedTo(CategoryId.val)

\* the filter for "C1" met a record assigned to "c1" and removed it, and the call
\* had a record without a pair in the map too
CategoryFilterExactWitness ==
  /\ QueryReturned
  /\ CategoryId = Some("C1")
  /\ AssignedTo("c1") # {}
  /\ Uncategorized # {}
  /\ result.val = <<>>

\* ---- C12
CategoryClauseIdle == CategoryId \in {None, Some("")}
SizeOperator ==
  IF filter_options.some THEN unwrap_or(filter_options.val.size_operator, "largerThan")
  ELSE "largerThan"
\* a threshold text that is there, not empty and a u64
Valid(text) == text.some /\ ~text.val.empty /\ text.val.digits /\ text.val.value.hi < 2^20
\* the size of a record in bytes, an unknown size as 0
SizeOf(img) == IF img.size.some THEN img.size.val ELSE 0
\* kb KiB is less than 2^22 bytes (every size drawn is)
Small(kb) == kb.hi = 0 /\ kb.mid = 0 /\ kb.lo < 2^12
\* bytes compared with kb KiB in the integers, for bytes < 2^22
AtLeastKiB(bytes, kb) == Small(kb) /\ bytes >= kb.lo * 1024
AtMostKiB(bytes, kb) == Small(kb) => bytes <= kb.lo * 1024
BetweenCall ==
  /\ QueryReturned /\ filter_options.some /\ SizeOperator = "between"
  /\ CategoryClauseIdle /\ NameClauseIdle
\* the filter of the call with its two thresholds swapped
Swapped ==
  Some([filter_options.val EXCEPT !.size_value = filter_options.val.size_value2,
                                  !.size_value2 = filter_options.val.size_value])

\* C12: the size filter "between" returns the same records when its two thresholds
\* are swapped, keeps exactly the records whose size lies between the smaller and
\* the larger threshold (in KiB), and removes no record when either threshold is
\* absent, empty or no number.
BetweenSymmetric ==
  BetweenCall =>
    LET v == filter_options.val.size_value
        v2 == filter_options.val.size_value2
    IN /\ result.val = sort_images(images, sort_option, sort_direction, image_categories,
                                   Swapped).val
       /\ (Valid(v) /\ Valid(v2)) =>
            Range(result.val) =
              {img \in Range(images) :
                 /\ AtLeastKiB(SizeOf(img), v.val.value) \/ AtLeastKiB(SizeOf(img), v2.val.value)
                 /\ AtMostKiB(SizeOf(img), v.val.value) \/ AtMostKiB(SizeOf(img), v2.val.value)}
       /\ ~(Valid(v) /\ Valid(v2)) => Range(result.val) = Range(images)

\* the same with both products below 2^64
BetweenSymmetricInRange ==
  (/\ BetweenCall
   /\ ~multiplication_overflows(filter_options)
   /\ ~multiplication_overflows(Swapped)) => BetweenSymmetric

\* ---- C13
SizeFilterCall == QueryReturned /\ filter_options.some /\ CategoryClauseIdle /\ NameClauseIdle
Paths(imgs) == [i \in DOMAIN imgs |-> imgs[i].path]
\* the input with every unknown size replaced by the size 0
UnknownAsZero == [i \in DOMAIN images |-> [images[i] EXCEPT !.size = Some(SizeOf(images[i]))]]

\* C13: a size filter whose first threshold is absent, empty or no u64 removes no
\* record, whatever the size operator; with a valid threshold a record of unknown
\* size is kept or removed as the same record with size 0 is.
InvalidThresholdKeepsAll ==
  SizeFilterCall =>
    /\ ~Valid(filter_options.val.size_value) =>
          result.val = sort_images(images, sort_option, sort_direction, image_categories,
                                   None).val
    /\ Valid(filter_options.val.size_value) =>
          Paths(result.val) = Paths(sort_images(UnknownAsZero, sort_option, sort_direction,
                                                image_categories, filter_options).val)

\* a valid threshold of 1 KiB removed a record of unknown size and kept another record
InvalidThresholdKeepsAllWitness ==
  /\ SizeFilterCall
  /\ filter_options.val.size_value = Some(Digits(u64_from(1)))
  /\ \E img \in Range(images) : ~img.size.some /\ img \notin Range(result.val)
  /\ result.val # <<>>

\* ---- C14
NameFilterCall == QueryReturned /\ filter_options.some /\ CategoryClauseIdle /\ SizeClauseIdle
Suffixes(str) == {SubSeq(str, k, Len(str)) : k \in 1..(Len(str) + 1)}
Prefixes(str) == {SubSeq(str, 1, k) : k \in 0..Len(str)}
\* the last component of a path: what follows the last '/'
Basename(path) ==
  CHOOSE s \in Suffixes(path) :
    /\ \A i \in DOMAIN s : s[i] # 47
    /\ Len(s) = Len(path) \/ path[Len(path) - Len(s)] = 47
IsPrefix(pat, str) == \E rest \in Suffixes(str) : str = pat \o rest
IsSuffix(pat, str) == \E rest \in Prefixes(str) : str = rest \o pat
IsInfix(pat, str) == \E a \in Prefixes(str), b \in Suffixes(str) : str = a \o pat \o b
Matches(name, pat, operator) ==
  IF operator = Some("startsWith") THEN IsPrefix(pat, name)
  ELSE IF operator = Some("endsWith") THEN IsSuffix(pat, name)
  ELSE IF operator = Some("exact") THEN name = pat
  ELSE IsInfix(pat, name)

\* C14: with no other clause, the name filter returns exactly the records whose
\* lower-cased last path component has the lower-cased pattern as prefix
\* (startsWith), suffix (endsWith), whole (exact) or part (contains, no operator or
\* any other operator); the directories of the path play no part; an empty or
\* absent pattern removes no record.
NameFilterOnBasename ==
  NameFilterCall =>
    LET pattern == filter_options.val.name_pattern
    IN /\ Len(result.val) = Cardinality(Range(result.val))
       /\ Range(result.val) =
            IF pattern \in {None, Some(<<>>)} THEN Range(images)
            ELSE {img \in Range(images) :
                    Matches(to_lowercase(Basename(img.path)), to_lowercase(pattern.val),
                            filter_options.val.name_operator)}

\* the pattern "AB" with an unrecognized operator removed /ab/Ba, whose directory
\* has the pattern and whose name has not, and kept /ba/aB
NameFilterOnBasenameWitness ==
  /\ NameFilterCall
  /\ filter_options.val.name_pattern = Some(<<65, 66>>)
  /\ filter_options.val.name_operator = Some("matches")
  /\ NamePool[1] \in Range(Paths(images))
  /\ NamePool[1] \notin Range(Paths(result.val))
  /\ NamePool[2] \in Range(Paths(result.val))

\* ---- C15
\* no filter, or a filter whose three clauses are absent or empty texts
NoClause ==
  filter_options.some =>
    /\ filter_options.val.category_id \in {None, Some("")}
    /\ filter_options.val.name_pattern \in {None, Some(<<>>)}
    /\ filter_options.val.size_value \in {None, Some(EmptyText)}

\* C15: with a sort key that is not recognized sort_images returns Ok; the result
\* is the input itself when there is no filter or the filter has no clause, in
\* either direction, and otherwise records of the input in their input order.
UnknownKeyKeepsOrder ==
  (QueryReturned /\ ~RecognizedKey) =>
    /\ result.ok
    /\ NoClause => result.val = images
    /\ \A i \in DOMAIN result.val : result.val[i] \in Range(images)
    /\ \A i, j \in DOMAIN result.val :
         i < j => InputIndex(result.val[i]) < InputIndex(result.val[j])

\* a descending call with an unknown key whose filter removed the second of three
\* records, the first and the third not being in name order
UnknownKeyKeepsOrderWitness ==
  /\ QueryReturned /\ ~RecognizedKey /\ ~NoClause
  /\ sort_direction = "descending"
  /\ Len(images) = 3
  /\ result.val = <<images[1], images[3]>>
  /\ compare_name(images[1], images[3], FALSE) = Greater

\* ---- C16
\* C16: sort_images is total: every call returns, and returns Ok, whatever the
\* dates, thresholds, operators, sort key and direction are; it never returns Err
\* and never aborts.
SortImagesTotal == qpc # "ready" => (qpc = "returned" /\ result.ok)

\* the part of C16 that holds: a call that returns returns Ok
SortImagesNeverErr == QueryReturned => result.ok

\* ---- C17
\* a record satisfies the category, the name, the size clause of the call
SatisfiesCategory(img) ==
  \/ CategoryId \in {None, Some("")}
  \/ CategoryId = Some("uncategorized") /\ img \in Uncategorized
  \/ CategoryId # Some("uncategorized") /\ img \in AssignedTo(CategoryId.val)
SatisfiesName(img) ==
  \/ filter_options.val.name_pattern \in {None, Some(<<>>)}
  \/ Matches(to_lowercase(Basename(img.path)),
             to_lowercase(filter_options.val.name_pattern.val),
             filter_options.val.name_operator)
\* the size clause as the call evaluates it, with the products it computes
SatisfiesSize(img) == size_clause(img, filter_options.val)

\* C17: the clauses of a filter are a conjunction: the result has exactly the input
\* records that satisfy the category clause and the name clause and the size clause
\* (which does not depend on the order of the clauses), each once.
ClausesConjoined ==
  (QueryReturned /\ filter_options.some) =>
    /\ Len(result.val) = Cardinality(Range(result.val))
    /\ Range(result.val) =
         {img \in Range(images) :
            SatisfiesCategory(img) /\ SatisfiesName(img) /\ SatisfiesSize(img)}

\* a filter with three clauses kept a record and removed two, of which one fails
\* the category clause only and the other the size clause only
ClausesConjoinedWitness ==
  /\ QueryReturned /\ filter_options.some
  /\ ~CategoryClauseIdle /\ ~NameClauseIdle /\ ~SizeClauseIdle
  /\ result.val # <<>>
  /\ \E a, b \in Range(images) :
       /\ ~SatisfiesCategory(a) /\ SatisfiesName(a) /\ SatisfiesSize(a)
       /\ SatisfiesCategory(b) /\ SatisfiesName(b) /\ ~SatisfiesSize(b)

\* ---- C20
\* two records have the same value of the sort key of the call
SameKeyValue(a, b) ==
  CASE sort_option = "name" ->
         to_lowercase(Basename(a.path)) = to_lowercase(Basename(b.path))
    [] sort_option = "size" -> SizeOf(a) = SizeOf(b)
    [] sort_option = "dateCreated" ->
         \/ ~ValidCreated(a) /\ ~ValidCreated(b)
         \/ ValidCreated(a) /\ ValidCreated(b) /\ CreatedInstant(a) = CreatedInstant(b)
    [] sort_option = "lastCategorized" ->
         get_latest_assignment(CategoryMap, a.path) = get_latest_assignment(CategoryMap, b.path)
    [] OTHER -> FALSE

\* C20: the sort is stable: under every sort key and in every direction two records
\* that compare equal (equal lower-cased file names, equal sizes with unknown as 0,
\* equal or both missing creation times, equal latest-assignment values) come out
\* in the order they had in the input.
SortIsStable ==
  (QueryReturned /\ RecognizedKey) =>
    \A i, j \in DOMAIN result.val :
      (i < j /\ (KeyEqual(result.val[i], result.val[j])
                   \/ SameKeyValue(result.val[i], result.val[j])))
        => InputIndex(result.val[i]) < InputIndex(result.val[j])

\* an ascending sort by creation time moved a dated record in front of two records
\* without a valid date, which stayed in input order
SortIsStableWitness ==
  /\ QueryReturned /\ sort_option = "dateCreated" /\ sort_direction = "ascending"
  /\ Len(result.val) = 3
  /\ ValidCreated(images[3]) /\ result.val[1] = images[3]
  /\ SameKeyValue(images[1], images[2])
  /\ result.val[2] = images[1] /\ result.val[3] = images[2]

\* ---- C18
\* a save_data_file_path call that completed with Ok
SavedPathOk(t) == Returned(t) /\ op[t].name = "save_data_file_path" /\ ret[t] = Ok(Unit)
\* the position of the call in the order in which the calls got the lock
LockOrder(t) == seen[t].order
\* the path a directory had before the first call
InitialPath(d) == IF from_str(disk0).ok THEN lookup(from_str(disk0).val, d) ELSE None
\* the path given by the completed save for d that got the lock last among the
\* calls that got it before position limit; the initial path when there is none
LastSaved(d, limit) ==
  LET savers == {t \in Threads : SavedPathOk(t) /\ op[t].directory = d /\ LockOrder(t) < limit}
  IN IF savers = {} THEN InitialPath(d)
     ELSE Some(op[CHOOSE t \in savers : \A u \in savers : LockOrder(u) <= LockOrder(t)]
                 .data_file_path)

\* C18: get_data_file_path(d) returns the path given by the completed
\* save_data_file_path call for d that got the lock last, overlapping calls
\* included, and None for a directory that never got a path: a get that returns Ok
\* returns it, and whenever no call holds the lock the file has it for every d.
LastWriterWins ==
  /\ \A g \in Threads :
       (Returned(g) /\ op[g].name = "get_data_file_path" /\ ret[g].ok) =>
         ret[g].val = LastSaved(op[g].directory, LockOrder(g))
  /\ (lock = NoThread /\ from_str(disk).ok) =>
       \A d \in Directories : lookup(from_str(disk).val, d) = LastSaved(d, NumThreads + 1)

\* two overlapping saves gave the same directory different paths; both completed
\* and the file has the path of the one that got the lock second
LastWriterWinsWitness ==
  \E s, t \in Threads :
    /\ SavedPathOk(s) /\ SavedPathOk(t)
    /\ op[s].directory = op[t].directory
    /\ op[s].data_file_path # op[t].data_file_path
    /\ LockOrder(s) < LockOrder(t)
    /\ seen[s].overlap
    /\ lock = NoThread
    /\ lookup(from_str(disk).val, op[t].directory) = Some(op[t].data_file_path)

\* ---- C19
\* the file a call names: the supplied file name in the directory, ".hito.json" in
\* the directory when none is supplied
NamedFile(directory, filename) ==
  IF filename.some THEN join(directory, filename.val)
  ELSE join(directory, RelativeName(".hito.json"))
LoadReturned == hito_pc = "returned" /\ hito_call.name = "load_hito_config"
LoadedFile == NamedFile(hito_call.directory, hito_call.filename)

\* C19: load_hito_config returns an empty assignment list when the file it names
\* does not exist and an error when the file is not the JSON of a HitoFile; when
\* the last write of the file was a successful save_hito_config, a load that
\* succeeds returns the assignments that save was given.
SidecarRoundTrip ==
  LoadReturned =>
    /\ hito_files[LoadedFile] = FileMissing => hito_ret = Ok(HitoFile(<<>>))
    /\ hito_files[LoadedFile] \in {FileMalformed, FilePartial} => ~hito_ret.ok
    /\ (last_saved[LoadedFile].some /\ hito_ret.ok) =>
          hito_ret.val.image_categories = last_saved[LoadedFile].val.image_categories

\* a load naming ".hito.json" returned the assignments that a save without a file
\* name had written, while a file of another name exists in the same directory
SidecarRoundTripWitness ==
  /\ LoadReturned /\ hito_ret.ok
  /\ hito_call.filename = Some(RelativeName(".hito.json"))
  /\ last_saved[LoadedFile].some
  /\ last_saved[LoadedFile].val.filename = None
  /\ hito_ret.val.image_categories # <<>>
  /\ last_saved[join(hito_call.directory, RelativeName("other.json"))].some
  /\ last_saved[join(hito_call.directory, RelativeName("other.json"))].val.image_categories
       # hito_ret.val.image_categories

\* ---- C21
\* kb * 1024 in the integers, the high limb unbounded
TimesKiB(kb) ==
  Number(kb.hi * 2^10 + (kb.mid \div 2^12),
         (kb.mid % 2^12) * 2^10 + (kb.lo \div 2^12),
         (kb.lo % 2^12) * 2^10)
\* the thresholds of the call that parse as u64 and are multiplied by 1024
MultipliedThresholds ==
  IF filter_options.some /\ threshold_given(filter_options.val.size_value)
    THEN {parse_u64(filter_options.val.size_value.val).val}
         \cup (IF SizeOperator = "between" /\ threshold_given(filter_options.val.size_value2)
                 THEN {parse_u64(filter_options.val.size_value2.val).val} ELSE {})
    ELSE {}

\* C21: for every threshold text that parses as a u64 the byte threshold the size
\* filter uses is the threshold in KiB times 1024: the multiplication does not
\* overflow, wrap or abort the call.
ByteThresholdExact ==
  (qpc # "ready" /\ MultipliedThresholds # {}) =>
    /\ qpc = "returned"
    /\ \A kb \in MultipliedThresholds : size_value_bytes(kb) = TimesKiB(kb)

\* the same for thresholds below 2^54 KiB
ByteThresholdExactInRange ==
  (qpc # "ready" /\ MultipliedThresholds # {}
     /\ \A kb \in MultipliedThresholds : kb.hi < 2^10) =>
    /\ qpc = "returned"
    /\ \A kb \in MultipliedThresholds : size_value_bytes(kb) = TimesKiB(kb)

\* ---- C22
\* the assignment list of a record, empty when the map has no pair for its path
AssignmentsOf(img) == IF img.path \in DOMAIN CategoryMap THEN CategoryMap[img.path] ELSE <<>>
\* the whole seconds of the assignments of a list whose timestamp is an RFC 3339 text
ParseableSeconds(list) ==
  {list[i].assigned_at.sec : i \in {j \in DOMAIN list : list[j].assigned_at.rfc3339}}
\* image_categories with every assignment list reversed
ListsReversed == [i \in DOMAIN image_categories |->
                   <<image_categories[i][1], Reverse(image_categories[i][2])>>]
Parseable(assignment) == assignment.assigned_at.rfc3339
\* image_categories without the assignments whose timestamp does not parse
UnparsableDropped == [i \in DOMAIN image_categories |->
                       <<image_categories[i][1], SelectSeq(image_categories[i][2], Parseable)>>]
LastCategorizedCall == QueryReturned /\ sort_option = "lastCategorized"

\* C22: the lastCategorized key of a record is the greatest of the timestamps of
\* its assignments that parse: the result is the same with every assignment list
\* reversed, and (without a category filter) with the unparsable assignments left
\* out; a record whose assignments are all unparsable is still removed by the
\* category filter "uncategorized" and kept by the filter for its category id.
LatestParseableIsKey ==
  LastCategorizedCall =>
    /\ \A img \in Range(images) :
         LET seconds == ParseableSeconds(AssignmentsOf(img))
         IN /\ seconds # {} =>
                 /\ get_latest_assignment(CategoryMap, img.path) \in seconds
                 /\ \A x \in seconds : x <= get_latest_assignment(CategoryMap, img.path)
            /\ (seconds = {} /\ AssignmentsOf(img) # <<>>) =>
                 /\ CategoryId = Some("uncategorized") => img \notin Range(result.val)
                 /\ (/\ CategoryId.some
                     /\ \E a \in Range(AssignmentsOf(img)) : a.category_id = CategoryId.val)
                      => img \in Range(result.val)
    /\ result.val = sort_images(images, sort_option, sort_direction, ListsReversed,
                                filter_options).val
    /\ CategoryClauseIdle =>
         result.val = sort_images(images, sort_option, sort_direction, UnparsableDropped,
                                  filter_options).val
    /\ \A i, j \in DOMAIN result.val :
         i < j => IF sort_direction = "descending"
                    THEN get_latest_assignment(CategoryMap, result.val[i].path)
                           >= get_latest_assignment(CategoryMap, result.val[j].path)
                    ELSE get_latest_assignment(CategoryMap, result.val[i].path)
                           <= get_latest_assignment(CategoryMap, result.val[j].path)

\* an ascending sort moved a record whose list has the later timestamp first and
\* the earlier one last behind a record assigned in between
LatestParseableIsKeyWitness ==
  /\ LastCategorizedCall /\ sort_direction = "ascending"
  /\ \E i, j \in DOMAIN images :
       /\ i < j
       /\ AssignmentsOf(images[i]) = <<Assigned("c2", Instant(2, 0)), Assigned("c1", Instant(1, 0))>>
       /\ AssignmentsOf(images[j]) = <<Assigned("c1", Instant(1, 0))>>
       /\ \E k \in DOMAIN images :
            AssignmentsOf(images[k]) = <<Assigned("c1", NotADate), Assigned("c2", Instant(2, 0))>>
       /\ \E m, n \in DOMAIN result.val :
            m < n /\ result.val[m] = images[j] /\ result.val[n] = images[i]

\* ---- C23
\* the positions of a call between its first and its last access to the file
InFile == {"read", "update", "write_create", "write_all"}
HoldsWhileInFile ==
  \A t \in Threads : IF pc[t] \in InFile THEN lock = t ELSE lock # t

\* C23: every config store operation holds the one lock from before its first
\* read or write of the file until it returns, and has released it when it has
\* returned, with Ok or with Err; so under a fair scheduler every call that waits
\* for the lock gets it and every call returns.
LockHeldAndReleased ==
  /\ []HoldsWhileInFile
  /\ \A t \in Threads : (pc[t] = "lock") ~> (pc[t] = "returned")

\* a call returned Err after it had the lock, and another call has the lock now
LockHeldAndReleasedWitness ==
  \E s, t \in Threads :
    /\ s # t
    /\ GotLock(s) /\ ~ret[s].ok
    /\ lock = t /\ pc[t] = "read"

\* ---- C24
\* a is not after b in the lexicographic order of the byte values
LexLeq(a, b) ==
  \/ IsPrefix(a, b)
  \/ \E k \in 1..Len(a) :
       /\ k <= Len(b)
       /\ SubSeq(a, 1, k - 1) = SubSeq(b, 1, k - 1)
       /\ a[k] < b[k]
LowerName(img) == to_lowercase(Basename(img.path))
AscendingCall == QueryReturned /\ sort_direction = "ascending"

\* C24: sorting by name ascending gives an output whose lower-cased last path
\* components never decrease (directories and letter case play no part); sorting
\* by size ascending gives an output whose sizes never decrease, an unknown size
\* counting as 0.
AscendingByNameAndSize ==
  AscendingCall =>
    \A i, j \in DOMAIN result.val :
      i < j =>
        /\ sort_option = "name" => LexLeq(LowerName(result.val[i]), LowerName(result.val[j]))
        /\ sort_option = "size" => SizeOf(result.val[i]) <= SizeOf(result.val[j])

\* sorting by name moved /b/A in front of /a/B, which came first in the input
AscendingByNameAndSizeWitness ==
  /\ AscendingCall /\ sort_option = "name"
  /\ Len(images) = 3 /\ Len(result.val) = 3
  /\ images[1].path = PathPool[1]
  /\ result.val[1].path = PathPool[4]
  /\ result.val[3].path = PathPool[1]

\* ---- C25
FilesReturned(name) == fpc = "returned" /\ file_call.name = name
SourcePath == file_call.image_path
\* the path in the destination directory with the file name of the source
DestinationPath == [dir |-> file_call.destination_dir, name |-> file_call.image_path.name]

\* C25: when move_image returns Ok the source path holds nothing and the
\* destination directory holds under the source's file name a file with the
\* source's content, whatever was there; when copy_image returns Ok the
\* destination holds the same and the source is as it was.
MovedOrCopied ==
  /\ (FilesReturned("move_image") /\ fret.ok) =>
       /\ files[SourcePath] = FileMissing
       /\ files[DestinationPath] = files0[SourcePath]
  /\ (FilesReturned("copy_image") /\ fret.ok) =>
       /\ files[DestinationPath] = files0[SourcePath]
       /\ files[SourcePath] = files0[SourcePath]

\* the same for a destination directory that is not the directory of the source
MovedOrCopiedElsewhere ==
  file_call.name \in {"copy_image", "move_image"} =>
    (file_call.destination_dir # file_call.image_path.dir => MovedOrCopied)

\* ---- C26
\* C26: whenever move_image returns Err, the source path holds what it held when
\* the command was called: a file that was there is there with its content.
MoveErrKeepsSource ==
  (FilesReturned("move_image") /\ ~fret.ok) => files[SourcePath] = files0[SourcePath]

\* the move between filesystems copied the file over a file with another content
\* and then failed to remove the source
MoveErrKeepsSourceWitness ==
  /\ FilesReturned("move_image")
  /\ fret = Err("Copied file but failed to remove source")
  /\ is_file(files0[DestinationPath])
  /\ files0[DestinationPath] # files0[SourcePath]
  /\ files[DestinationPath] = files0[SourcePath]

\* ---- C27
\* C27: when save_app_data(categories, hotkeys) has returned Ok, the document it
\* stored holds exactly the category list and the hotkey list it was given,
\* whatever the file held when it took the lock.
SavedListsExact ==
  \A t \in Threads :
    SavedOk(t, "save_app_data") =>
      /\ DocOf(after[t]).categories = op[t].categories
      /\ DocOf(after[t]).hotkeys = op[t].hotkeys

\* a save_app_data found the lists another save_app_data had stored, none of whose
\* entries it was given, and stored its own
SavedListsExactWitness ==
  \E s, t \in Threads :
    /\ s # t
    /\ SavedOk(s, "save_app_data")
    /\ SavedOk(t, "save_app_data")
    /\ before[t] = after[s]
    /\ DocOf(before[t]).categories # <<>>
    /\ \A i \in DOMAIN DocOf(before[t]).categories :
         ~Contains(op[t].categories, DocOf(before[t]).categories[i])
    /\ DocOf(before[t]).hotkeys # <<>>

\* ---- C28
\* how often a record occurs in a list
Count(imgs, img) == Cardinality({i \in DOMAIN imgs : imgs[i] = img})
\* a record satisfies every clause of the filter of the call, if there is one
SatisfiesAll(img) ==
  filter_options.some => SatisfiesCategory(img) /\ SatisfiesName(img) /\ SatisfiesSize(img)

\* C28: the output of a sort_images that returned is a permutation of the filtered
\* input: every record occurs in it as often as among the input records that
\* satisfy all filter clauses (once, the paths of the input being distinct), with
\* every field as it was, and it holds nothing else.
OutputIsPermutation ==
  QueryReturned =>
    /\ Len(result.val) = Cardinality({i \in DOMAIN images : SatisfiesAll(images[i])})
    /\ \A img \in Range(images) \cup Range(result.val) :
         Count(result.val, img) = IF img \in Range(images) /\ SatisfiesAll(img) THEN 1 ELSE 0

\* a filter removed a record and the sort changed the order of those it kept
OutputIsPermutationWitness ==
  /\ QueryReturned /\ filter_options.some
  /\ Len(result.val) >= 2
  /\ Len(images) > Len(result.val)
  /\ result.val # filter_images(images, CategoryMap, filter_options)

\* ---- C29
\* the filter of the call with the size operator "largerThan"
WithLargerThan == Some([filter_options.val EXCEPT !.size_operator = Some("largerThan")])

\* C29: with a valid threshold, lessThan keeps exactly the records whose size is
\* strictly below the threshold (in KiB), largerThan those strictly above it,
\* between (with a valid second threshold) those from the smaller to the larger
\* threshold, bounds included; an absent or unrecognized operator keeps what
\* largerThan keeps.
SizeOperators ==
  (SizeFilterCall /\ Valid(filter_options.val.size_value)) =>
    LET v == filter_options.val.size_value.val.value
        v2 == filter_options.val.size_value2
    IN /\ SizeOperator = "lessThan" =>
            Range(result.val) = {img \in Range(images) : ~AtLeastKiB(SizeOf(img), v)}
       /\ SizeOperator = "largerThan" =>
            Range(result.val) = {img \in Range(images) : ~AtMostKiB(SizeOf(img), v)}
       /\ (SizeOperator = "between" /\ Valid(v2)) =>
            Range(result.val) =
              {img \in Range(images) :
                 /\ AtLeastKiB(SizeOf(img), v) \/ AtLeastKiB(SizeOf(img), v2.val.value)
                 /\ AtMostKiB(SizeOf(img), v) \/ AtMostKiB(SizeOf(img), v2.val.value)}
       /\ SizeOperator \notin {"lessThan", "between"} =>
            result.val = sort_images(images, sort_option, sort_direction, image_categories,
                                     WithLargerThan).val

\* the same with every product below 2^64
SizeOperatorsInRange ==
  (filter_options.some /\ ~multiplication_overflows(filter_options)) => SizeOperators

\* ---- C30
\* no thread has opened the file for writing
NothingWritten == \A t \in Threads : nwrites[t] = 0

\* C30: load_app_data and get_data_file_path never change the config file: every
\* step that changes the file is a step of a thread that runs a mutate, and as
\* long as no mutate has opened the file for writing the file is as it was at the
\* start, missing if it was missing, malformed if it was malformed.
ReadsChangeNothing ==
  /\ [][disk' # disk => \E t \in Threads : IsMutate(t) /\ pc'[t] # pc[t]]_vars
  /\ [](NothingWritten => disk = disk0)

\* a load_app_data and a get_data_file_path have returned Ok and there is still
\* no file
ReadsChangeNothingWitness ==
  \E s, t \in Threads :
    /\ Returned(s) /\ op[s].name = "load_app_data" /\ ret[s] = Ok(AppDataDefault)
    /\ Returned(t) /\ op[t].name = "get_data_file_path" /\ ret[t] = Ok(None)
    /\ disk0 = FileMissing
    /\ disk = FileMissing

====
